---- MODULE Spec2Model ----
(***************************************************************************)
(* Model of the grouping tool (src/src/main.rs): the two reorganizers      *)
(* (reorganize_incomplete_groups, reorganize_batch_groups) and the         *)
(* helpers they call (split_into_small_groups, group_singletons).          *)
(*                                                                         *)
(* A Group is its `members` vector: a sequence of identifiers.  A          *)
(* Vec<Group> is a sequence of such sequences.  Identifiers are opaque to  *)
(* the reorganizers (they are moved and cloned, never compared), so the    *)
(* inputs carry pairwise distinct identifiers 1, 2, 3, ... numbered in     *)
(* input order: that makes every move, drop or duplication visible.        *)
(***************************************************************************)
EXTENDS Naturals, Integers, Sequences, FiniteSets, Bags, TLC

VARIABLES
    groups,             \* a Vec<Group>: the reader's list, the reorganizers' input
    final_groups,       \* the reorganizers' output (under construction in the loop)
    pc,                 \* the position of the program
    current_group,      \* the Group being filled (its members)
    calls,              \* the identifiers passed to add_member so far
    index,              \* the argument of group_index_to_letter
    label,              \* its result
    incomplete_members, \* the shuffled pool of reorganize_incomplete_groups
    idx,                \* the index of its chunking loop
    running,            \* the AtomicBool the Ctrl+C handler clears
    is_tty,             \* whether stdin is a terminal (interactive mode)
    line,               \* the item the line iterator has just yielded
    live,               \* the identifiers accepted and not deleted so far
    nlines              \* the number of items read so far

vars == <<groups, final_groups, pc, current_group, calls, index, label,
          incomplete_members, idx, running, is_tty, line, live, nlines>>

\* The variables each part of the program leaves alone, and their values
\* while that part is not running.
builder_vars == <<current_group, calls>>

label_vars == <<index, label>>

loop_vars == <<incomplete_members, idx>>

reader_vars == <<running, is_tty, line, live, nlines>>

BuilderIdle == current_group = <<>> /\ calls = <<>>

LabelIdle == index = 0 /\ label = <<>>

LoopIdle == incomplete_members = <<>> /\ idx = 0

ReaderIdle ==
    /\ running = TRUE
    /\ is_tty = TRUE
    /\ line = [kind |-> "none", id |-> 0]
    /\ live = <<>>
    /\ nlines = 0

(***************************************************************************)
(* Bounds of the model.                                                    *)
(***************************************************************************)
\* Largest number of groups in an input list.
MaxGroups == 4

\* Largest total number of identifiers in an input list (and so the
\* largest size of a single batch-mode group).
MaxTotal == 7

\* Largest pool followed through the chunking loop step by step.
MaxLoopPool == 6

\* Largest number of add_member calls made on one Group.
MaxCalls == 6

\* Largest group index handed to group_index_to_letter.
MaxIndex == 705

\* Largest number of lines read_student_ids processes.
MaxLines == 6

\* Number of distinct identifiers a caller or a user can give (the same
\* identifier may be given more than once).
NumIds == 2

(***************************************************************************)
(* Sequence helpers.                                                       *)
(***************************************************************************)
Min(a, b) == IF a < b THEN a ELSE b

RECURSIVE Flatten(_)
\* All members of a list of groups, in order (Vec::extend over the groups).
Flatten(gs) == IF gs = <<>> THEN <<>> ELSE Head(gs) \o Flatten(Tail(gs))

\* The first k elements of s, and s without its first k elements
\* (Vec::drain(0..k) returns the former and leaves the latter).
Take(s, k) == SubSeq(s, 1, k)

Drop(s, k) == SubSeq(s, k + 1, Len(s))

\* The sizes of the groups of a list.
Sizes(gs) == [i \in 1..Len(gs) |-> Len(gs[i])]

\* The set of the elements of a sequence.
Range(s) == {s[i] : i \in 1..Len(s)}

RECURSIVE BagOf(_)
\* The multiset of the elements of a sequence.
BagOf(s) == IF s = <<>> THEN EmptyBag ELSE SetToBag({Head(s)}) (+) BagOf(Tail(s))

(***************************************************************************)
(* Group (lines 28-49).                                                    *)
(***************************************************************************)
\* A variant that is off by one: full only above 3 members.
is_full_strict(g) == Len(g) > 3

\* Group::is_full (lines 46-48)
is_full(g) == Len(g) >= 3

is_incomplete(g) == ~is_full(g)

(***************************************************************************)
(* split_into_small_groups (lines 252-294).                                *)
(***************************************************************************)
\* A variant that always takes 3 when 3 or more are left (no 2+2 for 4).
split_group_size_greedy(remaining) ==
    IF remaining >= 3 THEN 3 ELSE remaining

\* Lines 273-283: the size of the next chunk when `remaining` members are
\* left.
split_group_size(remaining) ==
    IF remaining >= 3
    THEN (IF remaining = 4 THEN 2 ELSE 3)
    ELSE remaining

RECURSIVE split_loop(_, _)
\* The while loop: idx0 is the 0-based index of the next member.
split_loop(members, idx0) ==
    IF idx0 < Len(members)
    THEN LET group_size == split_group_size(Len(members) - idx0)
             new_group == SubSeq(members, idx0 + 1, idx0 + group_size)
         IN  <<new_group>> \o split_loop(members, idx0 + group_size)
    ELSE <<>>

split_into_small_groups(members) ==
    IF Len(members) = 0 THEN <<>>
    ELSE IF Len(members) = 1 THEN << <<members[1]>> >>
    ELSE split_loop(members, 0)

(***************************************************************************)
(* group_singletons (lines 298-310): drains `singletons` from the front    *)
(* while at least 2 are left.  Returns the groups made and what is left    *)
(* in the caller's vector.                                                 *)
(***************************************************************************)
RECURSIVE group_singletons(_)
group_singletons(singletons) ==
    IF Len(singletons) >= 2
    THEN LET take_count == IF Len(singletons) = 4 THEN 2 ELSE Min(3, Len(singletons))
             rest == group_singletons(Drop(singletons, take_count))
         IN  [made |-> <<Take(singletons, take_count)>> \o rest.made,
              left |-> rest.left]
    ELSE [made |-> <<>>, left |-> singletons]

(***************************************************************************)
(* reorganize_batch_groups (lines 314-414).                                *)
(***************************************************************************)
RECURSIVE split_oversized(_)
\* First pass (lines 321-331) and final pass (lines 403-411): a group of
\* at most 3 members is kept, a larger one is replaced by its chunks.
split_oversized(gs) ==
    IF gs = <<>> THEN <<>>
    ELSE (IF Len(Head(gs)) <= 3
          THEN <<Head(gs)>>
          ELSE split_into_small_groups(Head(gs)))
         \o split_oversized(Tail(gs))

\* A variant that copies the singletons into the last group and leaves
\* them pending as well (no drain).
offer_to_last_no_drain(st) ==
    IF st.res = <<>> THEN st
    ELSE LET last_group == st.res[Len(st.res)]
             slots == 3 - Len(last_group)
             take == Min(slots, Len(st.pend))
         IN  IF take > 0
             THEN [res |-> [st.res EXCEPT ![Len(st.res)] = last_group \o Take(st.pend, take)],
                   pend |-> st.pend]
             ELSE st

\* Lines 351-357 and again 377-383: pending singletons are offered to the
\* last emitted group, which takes as many as it has free slots.  Both call
\* sites see a last group of at most 3 members, so `3 - len` (usize) does
\* not underflow.  st is [res: result_groups, pend: pending_singletons].
offer_to_last(st) ==
    IF st.res = <<>> THEN st
    ELSE LET last_group == st.res[Len(st.res)]
             slots == 3 - Len(last_group)
             take == Min(slots, Len(st.pend))
         IN  IF take > 0
             THEN [res |-> [st.res EXCEPT ![Len(st.res)] = last_group \o Take(st.pend, take)],
                   pend |-> Drop(st.pend, take)]
             ELSE st

\* Lines 350-361 (and 377-386): offer to the last group, then group what
\* is still pending among themselves.
offer_and_group(st) ==
    LET offered == offer_to_last(st)
        gsr == group_singletons(offered.pend)
    IN  [res |-> offered.res \o gsr.made, pend |-> gsr.left]

\* A variant that pushes the pending singleton at the back of the current
\* group instead of inserting it at the front.
merge_step_push_back(st, group) ==
    IF Len(group) = 1
    THEN LET pending == st.pend \o group
         IN  IF Len(pending) >= 2 /\ Len(pending) <= 3
             THEN [res |-> Append(st.res, pending), pend |-> <<>>]
             ELSE [res |-> st.res, pend |-> pending]
    ELSE LET a == IF st.pend # <<>> THEN offer_and_group(st) ELSE st
         IN  IF Len(a.pend) = 1 /\ Len(group) < 3
             THEN [res |-> Append(a.res, group \o <<a.pend[1]>>), pend |-> <<>>]
             ELSE [res |-> Append(a.res, group), pend |-> a.pend]

\* A variant that offers each singleton to the last emitted group as soon
\* as it is read.
merge_step_offer_first(st, group) ==
    IF Len(group) = 1
    THEN LET o == offer_to_last([res |-> st.res, pend |-> st.pend \o group])
         IN  IF Len(o.pend) >= 2 /\ Len(o.pend) <= 3
             THEN [res |-> Append(o.res, o.pend), pend |-> <<>>]
             ELSE o
    ELSE LET a == IF st.pend # <<>> THEN offer_and_group(st) ELSE st
         IN  IF Len(a.pend) = 1 /\ Len(group) < 3
             THEN [res |-> Append(a.res, <<a.pend[1]>> \o group), pend |-> <<>>]
             ELSE [res |-> Append(a.res, group), pend |-> a.pend]

\* One iteration of the second pass (lines 337-372).
merge_step(st, group) ==
    IF Len(group) = 1
    THEN LET pending == st.pend \o group
         IN  IF Len(pending) >= 2 /\ Len(pending) <= 3
             THEN [res |-> Append(st.res, pending), pend |-> <<>>]
             ELSE [res |-> st.res, pend |-> pending]
    ELSE LET a == IF st.pend # <<>> THEN offer_and_group(st) ELSE st
         IN  IF Len(a.pend) = 1 /\ Len(group) < 3
             THEN [res |-> Append(a.res, <<a.pend[1]>> \o group), pend |-> <<>>]
             ELSE [res |-> Append(a.res, group), pend |-> a.pend]

RECURSIVE merge_pass(_, _)
\* The second pass: the for loop over split_groups.
merge_pass(st, gs) ==
    IF gs = <<>> THEN st ELSE merge_pass(merge_step(st, Head(gs)), Tail(gs))

\* A variant that emits the last pending singleton as a group of its own
\* instead of attaching it to the last group.
merge_finish_own_group(st) ==
    IF st.pend # <<>>
    THEN LET a == offer_and_group(st)
         IN  IF Len(a.pend) = 1 THEN Append(a.res, a.pend) ELSE a.res
    ELSE st.res

\* Lines 374-400: the singletons still pending after the loop.
merge_finish(st) ==
    IF st.pend # <<>>
    THEN LET a == offer_and_group(st)
         IN  IF Len(a.pend) = 1
             THEN IF a.res # <<>>
                  THEN [a.res EXCEPT ![Len(a.res)] = a.res[Len(a.res)] \o a.pend]
                  ELSE <<a.pend>>
             ELSE a.res
    ELSE st.res

\* A variant that pools every member and chunks the pool, as incremental
\* mode does with partial groups.
reorganize_batch_regroup(gs) == split_into_small_groups(Flatten(gs))

reorganize_batch_groups(gs) ==
    IF gs = <<>> THEN gs
    ELSE LET split_groups == split_oversized(gs)
             merged == merge_pass([res |-> <<>>, pend |-> <<>>], split_groups)
             result_groups == merge_finish(merged)
         IN  split_oversized(result_groups)

(***************************************************************************)
(* reorganize_incomplete_groups (lines 416-508).                           *)
(***************************************************************************)
\* Lines 421-429: the groups that are full, in input order.
complete_groups(gs) == SelectSeq(gs, is_full)

\* Lines 421-429: the members of the groups that are not full, in input
\* order (incomplete_members before the shuffle).
incomplete_pool(gs) == Flatten(SelectSeq(gs, is_incomplete))

\* Line 433: slice::shuffle can leave the pool in any order.  The set of
\* the orders of `members`.
shuffles(members) ==
    {[i \in 1..Len(members) |-> members[p[i]]] : p \in Permutations(1..Len(members))}

\* A variant without the borrow: the pooled member joins the last full
\* group, whatever its size.
single_member_case_append(fg, members) ==
    IF fg # <<>>
    THEN [fg EXCEPT ![Len(fg)] = Append(@, members[1])]
    ELSE fg

\* Lines 439-463: the branch taken when exactly one member is pooled.
\* fg is final_groups (the full groups), members the one pooled member.
single_member_case(fg, members) ==
    IF fg # <<>>
    THEN LET last_group == fg[Len(fg)]
         IN  IF Len(last_group) = 3
             THEN LET member_from_last == last_group[3]
                      new_group == <<member_from_last, members[1]>>
                  IN  Append([fg EXCEPT ![Len(fg)] = Take(last_group, 2)], new_group)
             ELSE [fg EXCEPT ![Len(fg)] = Append(last_group, members[1])]
    ELSE fg

\* A variant without the 2+2 rule: 3 are taken whenever 3 or more are left.
chunk_step_greedy(st, members) ==
    LET n == Len(members)
        remaining == n - st.idx
    IN  IF remaining >= 3
        THEN [idx |-> st.idx + 3,
              fg |-> Append(st.fg, SubSeq(members, st.idx + 1, st.idx + 3))]
        ELSE IF remaining = 2
             THEN [idx |-> st.idx + 2,
                   fg |-> Append(st.fg, <<members[st.idx + 1], members[st.idx + 2]>>)]
             ELSE IF st.fg # <<>>
                  THEN [idx |-> st.idx + 1,
                        fg |-> [st.fg EXCEPT ![Len(st.fg)] = Append(@, members[st.idx + 1])]]
                  ELSE st

\* A variant whose 2-person group indexes the same member twice.
chunk_step_same_index(st, members) ==
    LET n == Len(members)
        remaining == n - st.idx
    IN  IF remaining >= 3
        THEN LET group_size == IF remaining = 4 THEN 2 ELSE 3
                 new_group == SubSeq(members, st.idx + 1, st.idx + group_size)
             IN  [idx |-> st.idx + group_size, fg |-> Append(st.fg, new_group)]
        ELSE IF remaining = 2
             THEN [idx |-> st.idx + 2,
                   fg |-> Append(st.fg, <<members[st.idx + 1], members[st.idx + 1]>>)]
             ELSE IF st.fg # <<>>
                  THEN [idx |-> st.idx + 1,
                        fg |-> [st.fg EXCEPT ![Len(st.fg)] = Append(@, members[st.idx + 1])]]
                  ELSE st

\* Lines 469-504: one iteration of the chunking loop.  st is
\* [idx: the 0-based index of the next member, fg: final_groups].
chunk_step(st, members) ==
    LET n == Len(members)
        remaining == n - st.idx
    IN  IF remaining >= 3
        THEN LET group_size == IF remaining = 4 THEN 2 ELSE 3
                 new_group == SubSeq(members, st.idx + 1, st.idx + group_size)
             IN  [idx |-> st.idx + group_size, fg |-> Append(st.fg, new_group)]
        ELSE IF remaining = 2
             THEN [idx |-> st.idx + 2,
                   fg |-> Append(st.fg, <<members[st.idx + 1], members[st.idx + 2]>>)]
             ELSE IF st.fg # <<>>
                  THEN [idx |-> st.idx + 1,
                        fg |-> [st.fg EXCEPT ![Len(st.fg)] = Append(@, members[st.idx + 1])]]
                  ELSE st

RECURSIVE chunk_loop(_, _)
\* Lines 467-505: the while loop.  An iteration that changes nothing
\* repeats for ever: the call then never returns (hung).
chunk_loop(st, members) ==
    IF st.idx < Len(members)
    THEN LET next == chunk_step(st, members)
         IN  IF next = st
             THEN [hung |-> TRUE, fg |-> st.fg]
             ELSE chunk_loop(next, members)
    ELSE [hung |-> FALSE, fg |-> st.fg]

\* The function after the shuffle, `shuffled` being the order the shuffle
\* left the pool in.
reorganize_shuffled(gs, shuffled) ==
    IF Len(shuffled) = 1
    THEN [hung |-> FALSE, fg |-> single_member_case(complete_groups(gs), shuffled)]
    ELSE chunk_loop([idx |-> 0, fg |-> complete_groups(gs)], shuffled)

\* Every result the function can have on gs, one per outcome of the shuffle.
reorganize_incomplete_groups(gs) ==
    {reorganize_shuffled(gs, shuffled) : shuffled \in shuffles(incomplete_pool(gs))}

(***************************************************************************)
(* The inputs: every list of at most MaxGroups groups holding at most      *)
(* MaxTotal identifiers in all, groups of 0 members included (a group      *)
(* emptied by delete commands stays in the list, lines 157-168).           *)
(***************************************************************************)
RECURSIVE SumTo(_, _)
\* sizes[1] + ... + sizes[k]
SumTo(sizes, k) == IF k = 0 THEN 0 ELSE sizes[k] + SumTo(sizes, k - 1)

Shapes ==
    {sizes \in UNION {[1..k -> 0..MaxTotal] : k \in 0..MaxGroups} :
        SumTo(sizes, Len(sizes)) <= MaxTotal}

\* The list of groups of the given sizes, identifiers numbered in order.
Numbered(sizes) ==
    [i \in 1..Len(sizes) |-> [j \in 1..sizes[i] |-> SumTo(sizes, i - 1) + j]]

Inputs == {Numbered(sizes) : sizes \in Shapes}

(***************************************************************************)
(* The state machine: `groups` is the list read_student_ids returned       *)
(* (line 536), `final_groups` what the function applied to it returned,    *)
(* pc which function ran.                                                  *)
(***************************************************************************)
Init ==
    /\ groups \in Inputs
    /\ final_groups = <<>>
    /\ pc = "read"
    /\ BuilderIdle /\ LabelIdle /\ LoopIdle /\ ReaderIdle

\* main, lines 544-546, and the tests of lines 784-931.
Batch ==
    /\ pc = "read"
    /\ final_groups' = reorganize_batch_groups(groups)
    /\ pc' = "batch"
    /\ UNCHANGED <<groups, builder_vars, label_vars, loop_vars, reader_vars>>

\* main, lines 547-550, and the tests of lines 577-769.
Incremental ==
    /\ pc = "read"
    /\ \E r \in reorganize_incomplete_groups(groups) :
          /\ final_groups' = r.fg
          /\ pc' = IF r.hung THEN "hung" ELSE "incremental"
    /\ UNCHANGED <<groups, builder_vars, label_vars, loop_vars, reader_vars>>

\* split_into_small_groups applied to the members of a single group
\* (lines 328 and 408).
Split ==
    /\ pc = "read"
    /\ Len(groups) = 1
    /\ final_groups' = split_into_small_groups(groups[1])
    /\ pc' = "split"
    /\ UNCHANGED <<groups, builder_vars, label_vars, loop_vars, reader_vars>>

Next == Batch \/ Incremental \/ Split

Spec == Init /\ [][Next]_vars

(***************************************************************************)
(* Properties.                                                             *)
(***************************************************************************)
\* Every group of the list has 2 or 3 members.
AllTwoOrThree(gs) == \A i \in 1..Len(gs) : Len(gs[i]) \in {2, 3}

\* Every group of the list has at most 3 members (what the Group Builder
\* lets interactive mode produce).
AtMostThree(gs) == \A i \in 1..Len(gs) : Len(gs[i]) <= 3

\* The chunk sizes C10 states for a group of n members.
ExpectedChunkSizes(n) ==
    IF n % 3 = 0 THEN [i \in 1..(n \div 3) |-> 3]
    ELSE IF n % 3 = 2 THEN [i \in 1..(n \div 3) |-> 3] \o <<2>>
    ELSE [i \in 1..((n \div 3) - 1) |-> 3] \o <<2, 2>>

\* C10: for a group of n >= 4 members, split_into_small_groups returns
\* consecutive chunks whose concatenation is the original member sequence,
\* of sizes all 3s (n mod 3 = 0), 3s then one 2 (n mod 3 = 2), or 3s then
\* 2,2 (n mod 3 = 1); every chunk has 2 or 3 members.
C10_SplitChunks ==
    (pc = "split" /\ Len(groups[1]) >= 4) =>
        /\ Flatten(final_groups) = groups[1]
        /\ Sizes(final_groups) = ExpectedChunkSizes(Len(groups[1]))
        /\ AllTwoOrThree(final_groups)
        /\ (Len(groups[1]) = 4 => Sizes(final_groups) = <<2, 2>>)
        /\ (Len(groups[1]) = 5 => Sizes(final_groups) = <<3, 2>>)
        /\ (Len(groups[1]) = 7 => Sizes(final_groups) = <<3, 2, 2>>)

\* A group of 7 has been split into chunks of 3, 2 and 2.
C10_Witness ==
    /\ pc = "split"
    /\ Len(groups[1]) = 7
    /\ final_groups = << <<1, 2, 3>>, <<4, 5>>, <<6, 7>> >>

\* The input groups of exactly 3 members, in input order.
ThreeGroups(gs) == SelectSeq(gs, LAMBDA g : Len(g) = 3)

\* The members of the input groups of fewer than 3 members, in input order.
PartialMembers(gs) == Flatten(SelectSeq(gs, LAMBDA g : Len(g) < 3))

\* The one-person-total case: one pooled member and no group of 3.
LoneMember(gs) == Len(PartialMembers(gs)) = 1 /\ ThreeGroups(gs) = <<>>

\* C1: for every input list whose groups have 0 to 3 members, every group
\* in the output of reorganize_incomplete_groups has exactly 2 or 3 members,
\* whatever the shuffle; a pooled member gets no group only in the
\* one-pooled-member-no-complete-group case, which yields zero groups.
C1_IncrementalSizeBound ==
    (pc = "incremental" /\ AtMostThree(groups)) =>
        /\ AllTwoOrThree(final_groups)
        /\ IF LoneMember(groups)
           THEN final_groups = <<>>
           ELSE Range(PartialMembers(groups)) \subseteq Range(Flatten(final_groups))

\* A pool of 7 from groups of 2, 2, 2 and 1 has been chunked 3, 2, 2.
C1_Witness ==
    /\ pc = "incremental"
    /\ Sizes(groups) = <<2, 2, 2, 1>>
    /\ Sizes(final_groups) = <<3, 2, 2>>

\* C3 as stated: for all inputs to reorganize_incomplete_groups the
\* identifiers of the output groups are exactly those of the input groups,
\* as a multiset.
C3_IncrementalConservation ==
    pc = "incremental" =>
        BagOf(Flatten(final_groups)) = BagOf(Flatten(groups))

\* C3 amended: the identifiers of the output groups are exactly those of
\* the input groups, as a multiset, except when exactly one member is pooled
\* and no group is full: then the output is empty and that member is dropped.
C3_IncrementalConservationAmended ==
    pc = "incremental" =>
        IF Len(incomplete_pool(groups)) = 1 /\ complete_groups(groups) = <<>>
        THEN final_groups = <<>>
        ELSE BagOf(Flatten(final_groups)) = BagOf(Flatten(groups))

\* A full group and a lone member have been rebalanced into two pairs
\* holding the same four identifiers.
C3_Witness ==
    /\ pc = "incremental"
    /\ Sizes(groups) = <<3, 1>>
    /\ Sizes(final_groups) = <<2, 2>>
    /\ BagOf(Flatten(final_groups)) = BagOf(<<1, 2, 3, 4>>)

\* C6: when the pool does not have exactly 1 member, every input group of
\* exactly 3 members is in the output with the same members in the same
\* order, these groups come first in their original relative order and the
\* newly formed groups, which hold exactly the pooled members, follow them;
\* a list of only full groups is returned unchanged.
C6_FullGroupsFirst ==
    (pc = "incremental" /\ AtMostThree(groups) /\ Len(PartialMembers(groups)) # 1) =>
        LET kept == ThreeGroups(groups)
            formed == SubSeq(final_groups, Len(kept) + 1, Len(final_groups))
        IN  /\ Len(final_groups) >= Len(kept)
            /\ SubSeq(final_groups, 1, Len(kept)) = kept
            /\ BagOf(Flatten(formed)) = BagOf(PartialMembers(groups))
            /\ (PartialMembers(groups) = <<>> /\ kept = groups => final_groups = groups)

\* A group of 3 standing between two groups of 2 has come out first,
\* unchanged, followed by two new groups.
C6_Witness ==
    /\ pc = "incremental"
    /\ Sizes(groups) = <<2, 3, 2>>
    /\ final_groups[1] = <<3, 4, 5>>
    /\ Len(final_groups) = 3

\* C7: when the pool has exactly 1 member and a complete (3-member) group
\* exists, only the last complete group changes: it loses its last member,
\* and a new group of that member followed by the pooled member is the last
\* output group; no group of size 1 or 4 is produced.
C7_BorrowRebalance ==
    (/\ pc = "incremental"
     /\ AtMostThree(groups)
     /\ Len(PartialMembers(groups)) = 1
     /\ ThreeGroups(groups) # <<>>) =>
        LET kept == ThreeGroups(groups)
            k == Len(kept)
        IN  /\ Len(final_groups) = k + 1
            /\ \A i \in 1..(k - 1) : final_groups[i] = kept[i]
            /\ final_groups[k] = <<kept[k][1], kept[k][2]>>
            /\ final_groups[k + 1] = <<kept[k][3], PartialMembers(groups)[1]>>
            /\ \A i \in 1..Len(final_groups) : Len(final_groups[i]) \notin {1, 4}

\* Two full groups around a lone member: the first is untouched, the last
\* gave its third member to a new pair.
C7_Witness ==
    /\ pc = "incremental"
    /\ groups = << <<1, 2, 3>>, <<4>>, <<5, 6, 7>> >>
    /\ final_groups = << <<1, 2, 3>>, <<5, 6>>, <<7, 4>> >>

\* C2: for every input list whose groups each have at least 1 member and
\* whose total member count is at least 2, every group in the output of
\* reorganize_batch_groups has exactly 2 or 3 members.
C2_BatchSizeBound ==
    (/\ pc = "batch"
     /\ \A i \in 1..Len(groups) : Len(groups[i]) >= 1
     /\ Len(Flatten(groups)) >= 2) =>
        AllTwoOrThree(final_groups)

\* A full group followed by a singleton: the singleton was attached (size
\* 4) and the final pass split the group 2+2.
C2_Witness ==
    /\ pc = "batch"
    /\ groups = << <<1, 2, 3>>, <<4>> >>
    /\ final_groups = << <<1, 2>>, <<3, 4>> >>

\* C4: for all inputs to reorganize_batch_groups the identifiers of the
\* output groups are exactly those of the input groups, as a multiset.
C4_BatchConservation ==
    pc = "batch" =>
        BagOf(Flatten(final_groups)) = BagOf(Flatten(groups))

\* All three passes acted: a group of 4 was split, a singleton was carried
\* past it and attached at the end, and the final pass split again.
C4_Witness ==
    /\ pc = "batch"
    /\ Sizes(groups) = <<1, 4, 2>>
    /\ Len(final_groups) >= 2
    /\ BagOf(Flatten(final_groups)) = BagOf(<<1, 2, 3, 4, 5, 6, 7>>)

\* C5: when the input to reorganize_batch_groups is a single identifier in
\* total with no other groups, the returned partition is empty; a group of
\* size 1 is never emitted.
C5_BatchSingleIdentifier ==
    (pc = "batch" /\ Sizes(groups) = <<1>>) =>
        /\ final_groups = <<>>
        /\ \A i \in 1..Len(final_groups) : Len(final_groups[i]) # 1

\* C8: every input group of exactly 3 members appears in the output of
\* reorganize_batch_groups with the same members in the same order.
C8_BatchKeepsThreeGroups ==
    pc = "batch" =>
        \A i \in 1..Len(groups) :
            Len(groups[i]) = 3 =>
                \E j \in 1..Len(final_groups) : final_groups[j] = groups[i]

\* C9: if every input group has 2 or 3 members, reorganize_batch_groups
\* returns the same groups with the same members in the same order, and
\* applying it to that output changes nothing.
C9_BatchIdentityOnValid ==
    (pc = "batch" /\ AllTwoOrThree(groups)) =>
        /\ final_groups = groups
        /\ reorganize_batch_groups(final_groups) = final_groups

\* A valid list of groups of 3, 2 and 2 has gone through batch mode.
C9_Witness ==
    /\ pc = "batch"
    /\ Sizes(groups) = <<3, 2, 2>>
    /\ Sizes(final_groups) = <<3, 2, 2>>

(***************************************************************************)
(* The Group Builder (lines 33-49) on its own: a Group made by             *)
(* Group::new() and the add_member calls made on it.                       *)
(***************************************************************************)
\* Group::new (lines 34-38)
Group_new == <<>>

\* A variant without the capacity test.
add_member_unchecked(g, student_id) == Append(g, student_id)

\* Group::add_member (lines 40-44)
add_member(g, student_id) ==
    IF Len(g) < 3 THEN Append(g, student_id) ELSE g

InitGroup ==
    /\ pc = "builder"
    /\ current_group = Group_new
    /\ calls = <<>>
    /\ groups = <<>>
    /\ final_groups = <<>>
    /\ LabelIdle /\ LoopIdle /\ ReaderIdle

\* group.add_member(student_id), as in the test of lines 558-575.
AddMember ==
    /\ Len(calls) < MaxCalls
    /\ \E student_id \in 1..NumIds :
          /\ current_group' = add_member(current_group, student_id)
          /\ calls' = Append(calls, student_id)
    /\ UNCHANGED <<groups, final_groups, pc, label_vars, loop_vars, reader_vars>>

\* let mut group = Group::new(): a fresh Group replaces the one in use.
NewGroup ==
    /\ calls # <<>>
    /\ current_group' = Group_new
    /\ calls' = <<>>
    /\ UNCHANGED <<groups, final_groups, pc, label_vars, loop_vars, reader_vars>>

NextGroup == AddMember \/ NewGroup

SpecGroup == InitGroup /\ [][NextGroup]_vars

\* C11: after k add_member calls on a new Group it holds exactly the first
\* min(k, 3) identifiers in call order (so a call on a Group of 3 members
\* changes nothing), its size never exceeds 3, and is_full() is true
\* exactly when the size is 3 or more, that is from the third call on.
C11_CapacityClamp ==
    /\ current_group = SubSeq(calls, 1, IF Len(calls) < 3 THEN Len(calls) ELSE 3)
    /\ Len(current_group) <= 3
    /\ is_full(current_group) <=> Len(current_group) >= 3
    /\ is_full(current_group) <=> Len(calls) >= 3

\* Five calls were made, the fourth with an identifier other than the
\* third: the Group holds the first three only.
C11_Witness ==
    /\ pc = "builder"
    /\ Len(calls) = 5
    /\ calls[4] # calls[3]
    /\ current_group = <<calls[1], calls[2], calls[3]>>

(***************************************************************************)
(* Batch mode: what happens to singleton groups.                           *)
(***************************************************************************)
\* The groups before position k are all valid (2 or 3 members): batch mode
\* emits them unchanged and no singleton is pending after them.
ValidBefore(gs, k) == AllTwoOrThree(SubSeq(gs, 1, k - 1))

\* The group after position k + 1, if any, is not a singleton.
NoSingletonAfter(gs, k) == Len(gs) >= k + 2 => Len(gs[k + 2]) >= 2

\* All groups before position k are full (exactly 3 members).
FullBefore(gs, k) == \A i \in 1..(k - 1) : Len(gs[i]) = 3

C14_NoEmptyOrLoneGroup ==
    (pc = "batch" /\ AtMostThree(groups) /\ Len(Flatten(groups)) >= 2) =>
        \A i \in 1..Len(final_groups) : Len(final_groups[i]) \notin {0, 1}

(***************************************************************************)
(* group_index_to_letter (lines 12-26).  A String is the sequence of its   *)
(* characters; format!("{}{}", a, b) is the two characters in a row.       *)
(***************************************************************************)
\* Line 13
alphabet ==
    <<"A", "B", "C", "D", "E", "F", "G", "H", "I", "J", "K", "L", "M",
      "N", "O", "P", "Q", "R", "S", "T", "U", "V", "W", "X", "Y", "Z">>

\* alphabet.chars().nth(k): the character at 0-based position k, None
\* past the end.
nth(k) == IF k < Len(alphabet) THEN alphabet[k + 1] ELSE "None"

\* A variant whose first letter is not shifted down by one.
group_index_to_letter_unshifted(i) ==
    IF i < Len(alphabet)
    THEN <<nth(i)>>
    ELSE LET first == i \div 26
             second == i % 26
         IN  IF nth(first) = "None" \/ nth(second) = "None"
             THEN <<"panic">>
             ELSE <<nth(first), nth(second)>>

\* Lines 12-26.  unwrap() of None panics, written <<"panic">>.
group_index_to_letter(i) ==
    IF i < Len(alphabet)
    THEN <<nth(i)>>
    ELSE LET first == (i \div 26) - 1
             second == i % 26
         IN  IF nth(first) = "None" \/ nth(second) = "None"
             THEN <<"panic">>
             ELSE <<nth(first), nth(second)>>

InitLabel ==
    /\ pc = "label"
    /\ index = 0
    /\ label = group_index_to_letter(0)
    /\ groups = <<>>
    /\ final_groups = <<>>
    /\ BuilderIdle /\ LoopIdle /\ ReaderIdle

\* print_groups, lines 512-516: the groups are labelled in order, each with
\* the letter of its index.
NextLabel ==
    /\ index < MaxIndex
    /\ index' = index + 1
    /\ label' = group_index_to_letter(index + 1)
    /\ UNCHANGED <<groups, final_groups, pc, builder_vars, loop_vars, reader_vars>>

SpecLabel == InitLabel /\ [][NextLabel]_vars

\* C15: indices 0 to 25 give the single letters A to Z in order, index 26
\* gives "AA", every index from 26 to 701 gives a two-letter code (701
\* gives "ZZ"), and no two indices of 0..701 share a label.
C15_LetterLabels ==
    (pc = "label" /\ index <= 701) =>
        /\ label # <<"panic">>
        /\ (index <= 25 => label = <<alphabet[index + 1]>>)
        /\ (index = 0 => label = <<"A">>)
        /\ (index = 25 => label = <<"Z">>)
        /\ (index = 26 => label = <<"A", "A">>)
        /\ (index = 701 => label = <<"Z", "Z">>)
        /\ (index >= 26 =>
               /\ Len(label) = 2
               /\ label[1] \in Range(alphabet)
               /\ label[2] \in Range(alphabet))
        /\ \A j \in 0..701 : j # index => group_index_to_letter(j) # label

\* Index 701, the last one with a two-letter code, has been labelled "ZZ".
C15_Witness ==
    /\ pc = "label"
    /\ index = 701
    /\ label = <<"Z", "Z">>

(***************************************************************************)
(* reorganize_incomplete_groups step by step: the separation and the       *)
(* shuffle, then either the single-member branch or the chunking loop,     *)
(* one iteration at a time.                                                *)
(***************************************************************************)
InitLoop ==
    /\ pc = "entry"
    /\ groups \in {gs \in Inputs : Len(incomplete_pool(gs)) <= MaxLoopPool}
    /\ final_groups = <<>>
    /\ incomplete_members = <<>>
    /\ idx = 0
    /\ BuilderIdle /\ LabelIdle /\ ReaderIdle

\* Lines 417-435 and the test of line 439 or 468: the groups are separated
\* and the pool is shuffled.
SeparateAndShuffle ==
    /\ pc = "entry"
    /\ final_groups' = complete_groups(groups)
    /\ \E shuffled \in shuffles(incomplete_pool(groups)) :
          /\ incomplete_members' = shuffled
          /\ pc' = IF Len(shuffled) = 1 THEN "single" ELSE "loop"
    /\ idx' = 0
    /\ UNCHANGED <<groups, builder_vars, label_vars, reader_vars>>

\* Lines 439-463: n == 1, and the return of line 462.
SingleMember ==
    /\ pc = "single"
    /\ final_groups' = single_member_case(final_groups, incomplete_members)
    /\ pc' = "returned"
    /\ UNCHANGED <<groups, incomplete_members, idx, builder_vars, label_vars, reader_vars>>

\* Lines 468-505: one iteration of while idx < n.
LoopIteration ==
    /\ pc = "loop"
    /\ idx < Len(incomplete_members)
    /\ LET next == chunk_step([idx |-> idx, fg |-> final_groups], incomplete_members)
       IN  /\ idx' = next.idx
           /\ final_groups' = next.fg
    /\ UNCHANGED <<groups, incomplete_members, pc, builder_vars, label_vars, reader_vars>>

\* Lines 468 and 507: the loop test fails and final_groups is returned.
LoopExit ==
    /\ pc = "loop"
    /\ idx >= Len(incomplete_members)
    /\ pc' = "returned"
    /\ UNCHANGED <<groups, final_groups, incomplete_members, idx,
                   builder_vars, label_vars, reader_vars>>

NextLoop == SeparateAndShuffle \/ SingleMember \/ LoopIteration \/ LoopExit

SpecLoop == InitLoop /\ [][NextLoop]_vars

\* In the loop the index never passes n, exactly 1 member is never left,
\* and the next iteration moves the index forward.
LoopAdvances ==
    pc = "loop" =>
        LET n == Len(incomplete_members)
        IN  /\ idx <= n
            /\ n - idx # 1
            /\ idx < n =>
                   chunk_step([idx |-> idx, fg |-> final_groups], incomplete_members).idx > idx

\* When the loop has returned, the groups after the full ones hold the
\* pool, every member once, in the order of the shuffle.
AllPlaced ==
    (pc = "returned" /\ Len(incomplete_members) # 1) =>
        /\ Len(final_groups) >= Len(complete_groups(groups))
        /\ Flatten(SubSeq(final_groups, Len(complete_groups(groups)) + 1, Len(final_groups)))
               = incomplete_members

\* C16: reorganize_incomplete_groups terminates on every input: in the
\* chunking loop the index advances on every iteration (it is bounded by
\* n, so the loop ends), exactly 1 member remaining is never reached for a
\* pool of 2 or more, and the loop ends with every pool member placed.
C16_LoopTerminates ==
    /\ LoopAdvances
    /\ AllPlaced

\* A pool of 4 in the loop after the first iteration: 2 were taken, 2 are
\* left (not 3 and 1).
C16_Witness ==
    /\ pc = "loop"
    /\ Len(incomplete_members) = 4
    /\ idx = 2
    /\ Len(final_groups[Len(final_groups)]) = 2

(***************************************************************************)
(* read_student_ids (lines 51-249) and the Ctrl+C handler (lines 530-533). *)
(* A line is known by what the code makes of it after trim(): an           *)
(* identifier, a delete command with its identifier, or an empty line;     *)
(* the line iterator can also yield an error or end.  `line` is the item   *)
(* in hand, `nlines` counts the items processed, `live` counts for each    *)
(* identifier how often it was accepted less how often it was deleted.     *)
(***************************************************************************)
NoLine == [kind |-> "none", id |-> 0]

\* The items the line iterator can yield (lines 119, 128-130, 200).
Items ==
    [kind : {"id", "delete"}, id : 1..NumIds] \cup
    {[kind |-> "empty", id |-> 0], [kind |-> "err", id |-> 0]}

\* members.iter().position(|x| x == &id): the first position of id in the
\* members, 0 standing for None.
position(members, id) ==
    IF \E i \in 1..Len(members) : members[i] = id
    THEN CHOOSE i \in 1..Len(members) :
             /\ members[i] = id
             /\ \A j \in 1..(i - 1) : members[j] # id
    ELSE 0

\* Vec::remove(pos), pos counted from 1 here.
remove(members, pos) == SubSeq(members, 1, pos - 1) \o SubSeq(members, pos + 1, Len(members))

RECURSIVE delete_from_groups(_, _)
\* Lines 157-168: the identifier is removed from the first group that
\* holds it; the other groups are left alone.
delete_from_groups(gs, id) ==
    IF gs = <<>> THEN <<>>
    ELSE IF position(Head(gs), id) # 0
         THEN <<remove(Head(gs), position(Head(gs), id))>> \o Tail(gs)
         ELSE <<Head(gs)>> \o delete_from_groups(Tail(gs), id)

\* Lines 144-173: a delete command.  The current group is searched first,
\* then the completed groups.
delete_command(cur, gs, id) ==
    IF position(cur, id) # 0
    THEN [cur |-> remove(cur, position(cur, id)), gs |-> gs]
    ELSE [cur |-> cur, gs |-> delete_from_groups(gs, id)]

\* Lines 176-197: an identifier line.  Batch mode pushes without limit;
\* interactive mode uses add_member and completes the group at 3.
add_command(cur, gs, id, tty) ==
    IF ~tty
    THEN [cur |-> Append(cur, id), gs |-> gs]
    ELSE LET added == add_member(cur, id)
         IN  IF is_full(added)
             THEN [cur |-> Group_new, gs |-> Append(gs, added)]
             ELSE [cur |-> added, gs |-> gs]

\* Lines 133-141: an empty line separates groups in batch mode only.
empty_line(cur, gs, tty) ==
    IF ~tty /\ cur # <<>>
    THEN [cur |-> Group_new, gs |-> Append(gs, cur)]
    ELSE [cur |-> cur, gs |-> gs]

\* Lines 128-199: what an Ok(line) does to current_group and groups.
process_line(cur, gs, item, tty) ==
    IF item.kind = "empty" THEN empty_line(cur, gs, tty)
    ELSE IF item.kind = "delete" THEN delete_command(cur, gs, item.id)
    ELSE add_command(cur, gs, item.id, tty)

\* The count of accepted-and-not-deleted identifiers after the item.
live_after(lv, item) ==
    IF item.kind = "id" THEN [lv EXCEPT ![item.id] = @ + 1]
    ELSE IF item.kind = "delete" /\ lv[item.id] > 0 THEN [lv EXCEPT ![item.id] = @ - 1]
    ELSE lv

\* A save that forgets the current group.
push_if_nonempty_forgotten(gs, cur) == gs

\* Lines 103-105, 122-124, 244-246: the current group is pushed if it has
\* members.
push_if_nonempty(gs, cur) == IF cur # <<>> THEN Append(gs, cur) ELSE gs

InitRead ==
    /\ pc = "loop_top"
    /\ groups = <<>>
    /\ current_group = Group_new
    /\ running = TRUE
    /\ is_tty \in BOOLEAN
    /\ line = NoLine
    /\ live = [i \in 1..NumIds |-> 0]
    /\ nlines = 0
    /\ final_groups = <<>>
    /\ calls = <<>>
    /\ LabelIdle /\ LoopIdle

\* Lines 530-533: the handler thread clears the flag, at any moment.
Interrupt ==
    /\ running
    /\ pc # "returned"
    /\ running' = FALSE
    /\ UNCHANGED <<groups, final_groups, pc, current_group, calls, label_vars,
                   loop_vars, is_tty, line, live, nlines>>

\* Lines 99-107: the flag check at the top of the outer loop.
LoopTop ==
    /\ pc = "loop_top"
    /\ IF ~running
       THEN /\ groups' = push_if_nonempty(groups, current_group)
            /\ pc' = "post_loop"
       ELSE /\ pc' = "lines_next"
            /\ UNCHANGED groups
    /\ UNCHANGED <<final_groups, current_group, calls, label_vars, loop_vars, reader_vars>>

\* Line 119: the iterator yields an item (the read blocks until a line is
\* there) ...
LinesNext ==
    /\ pc = "lines_next"
    /\ nlines < MaxLines
    /\ \E item \in Items : line' = item
    /\ pc' = "line_check"
    /\ UNCHANGED <<groups, final_groups, current_group, calls, label_vars,
                   loop_vars, running, is_tty, live, nlines>>

\* ... or ends (end of file, Ctrl+D): the for loop is left without a flag
\* check.
LinesEnd ==
    /\ pc = "lines_next"
    /\ pc' = "after_lines"
    /\ UNCHANGED <<groups, final_groups, current_group, calls, label_vars,
                   loop_vars, reader_vars>>

\* Lines 120-204: the flag check in the for loop, then the item.
LineCheck ==
    /\ pc = "line_check"
    /\ IF ~running
       THEN /\ groups' = push_if_nonempty(groups, current_group)
            /\ pc' = "returned"
            /\ UNCHANGED <<current_group, live, nlines>>
       ELSE IF line.kind = "err"
            THEN /\ pc' = "after_lines"
                 /\ nlines' = nlines + 1
                 /\ UNCHANGED <<groups, current_group, live>>
            ELSE LET r == process_line(current_group, groups, line, is_tty)
                 IN  /\ current_group' = r.cur
                     /\ groups' = r.gs
                     /\ live' = live_after(live, line)
                     /\ nlines' = nlines + 1
                     /\ pc' = "lines_next"
    /\ line' = NoLine
    /\ UNCHANGED <<final_groups, calls, label_vars, loop_vars, running, is_tty>>

\* Lines 207-240: after the for loop.  A current group with members is
\* saved; the outer loop continues only on a terminal whose /dev/tty opens.
AfterLines ==
    /\ pc = "after_lines"
    /\ IF current_group # <<>>
       THEN /\ groups' = Append(groups, current_group)
            /\ current_group' = Group_new
            /\ \E dev_tty_ok \in BOOLEAN :
                  pc' = IF is_tty /\ dev_tty_ok THEN "loop_top" ELSE "post_loop"
       ELSE /\ pc' = "post_loop"
            /\ UNCHANGED <<groups, current_group>>
    /\ UNCHANGED <<final_groups, calls, label_vars, loop_vars, reader_vars>>

\* Lines 243-248: the save after the loop, and the return.
PostLoop ==
    /\ pc = "post_loop"
    /\ groups' = push_if_nonempty(groups, current_group)
    /\ pc' = "returned"
    /\ UNCHANGED <<final_groups, current_group, calls, label_vars, loop_vars, reader_vars>>

NextRead ==
    Interrupt \/ LoopTop \/ LinesNext \/ LinesEnd \/ LineCheck \/ AfterLines \/ PostLoop

SpecRead == InitRead /\ [][NextRead]_vars

\* How often the identifier occurs in the returned groups.
Occurrences(gs, id) ==
    LET flat == Flatten(gs)
    IN  Cardinality({k \in 1..Len(flat) : flat[k] = id})

\* C17: in interactive mode every group of the list read_student_ids
\* returns has between 1 and 3 members, whatever identifier lines, delete
\* commands and ends of input came.
C17_InteractiveGroupSizes ==
    (pc = "returned" /\ is_tty) =>
        \A i \in 1..Len(groups) : Len(groups[i]) >= 1 /\ Len(groups[i]) <= 3

\* The returned list holds each identifier as often as it was accepted and
\* not deleted, and a current group with members is its last group.
ReturnedAccumulated ==
    pc = "returned" =>
        /\ \A id \in 1..NumIds : Occurrences(groups, id) = live[id]
        /\ current_group # <<>> =>
              /\ groups # <<>>
              /\ groups[Len(groups)] = current_group

\* Once the flag is cleared no item is processed, and the flag check that
\* comes next leaves the loops.
StopsAtNextCheck ==
    ~running =>
        /\ nlines' = nlines
        /\ live' = live
        /\ pc \in {"loop_top", "line_check"} => pc' \in {"post_loop", "returned"}

\* C18: whenever the handler clears the running flag, read_student_ids
\* stops at its next flag check without processing a further line, and the
\* list it returns holds every identifier accepted and not deleted, the
\* current group with members being in it exactly once.
C18_CancellationKeepsInput ==
    /\ []ReturnedAccumulated
    /\ [][StopsAtNextCheck]_vars

\* Returned after a Ctrl+C that found a current group with members behind
\* a completed group.
C18_Witness ==
    /\ pc = "returned"
    /\ ~running
    /\ current_group # <<>>
    /\ Len(groups) >= 2
    /\ nlines >= 3

====
